---- MODULE Spec2Model ----
(***************************************************************************)
(* Model of the drone-spot data scripts: the vote-based reconciler and     *)
(* merge assembler (fix_spots_mapping_v2.py), the path-based reconciler    *)
(* (fix_spots_mapping.py), the coordinate correction run                   *)
(* (correct_coordinates_crawlee.py) and the geofence filter                *)
(* (filter_malaysia_only.py).                                              *)
(*                                                                         *)
(* Strings are sequences of tokens.  A token is an atomic run of           *)
(* characters ("spot_", "images", "/", "1", ".jpg", ...); no token is a    *)
(* prefix of another, so prefix tests, substring tests and lexicographic   *)
(* comparison on token sequences agree with the same operations on the     *)
(* character strings they stand for.                                       *)
(***************************************************************************)
EXTENDS Integers, Sequences, FiniteSets, TLC

VARIABLES
    pc,                \* position of the running script
    enriched_exists,   \* ENRICHED_FILE.exists()
    enriched_data,     \* enriched_spots.json as loaded (a list of locations)
    spots,             \* the list of spot records a script builds or loads
    reported,          \* messages printed about missing inputs
    files_written,     \* files written by the run so far
    \* fix_spots_mapping.py and fix_spots_mapping_v2.py
    flavour,           \* path flavour of pathlib.Path: "posix" or "nt"
    labeled_exists,    \* LABELED_FILE.exists()
    disk,              \* SPOTS_DIR: folder name -> set of file names, or NoDir
    image_to_location, \* v2: imageKey -> loc_idx (insertion ordered)
    spot_votes,        \* v2: spot_folder -> votes dict (insertion ordered)
    spot_to_location,  \* spot_folder -> loc_idx
    location_to_spot,  \* v1: loc_idx -> spot_folder (insertion ordered)
    \* correct_coordinates_crawlee.py
    idx,               \* position of process_locations in enriched_data
    new_coords,        \* what scrape_google_maps_coords returned last
    distance,          \* calculate_distance of the last candidate, in metres
    corrected_count,
    unchanged_count,
    error_count,
    corrections,       \* the CorrectionRecords appended so far
    backup_file,       \* content of BACKUP_FILE
    events,            \* lookups issued, lookups returned and delays elapsed
    \* filter_malaysia_only.py
    input_exists,      \* INPUT_FILE.exists()
    bounds,            \* the four MALAYSIA_* bounds, in hundredths of a degree
    spots_file,        \* content of spots-simple.json
    malaysia_spots,
    removed_count,
    loaded             \* what each run of the filter so far loaded from spots-simple.json

sharedVars == <<pc, enriched_exists, enriched_data, spots, reported, files_written>>

reconcileVars == <<flavour, labeled_exists, disk, image_to_location, spot_votes,
                   spot_to_location, location_to_spot>>

correctVars == <<idx, new_coords, distance, corrected_count, unchanged_count,
                 error_count, corrections, backup_file, events>>

filterVars == <<input_exists, bounds, spots_file, malaysia_spots, removed_count,
                loaded>>

vars == <<sharedVars, reconcileVars, correctVars, filterVars>>

(***************************************************************************)
(* Bounds                                                                  *)
(***************************************************************************)
MaxLoc == 2        \* most locations in enriched_spots.json

(***************************************************************************)
(* Generic helpers on sequences and insertion-ordered dictionaries.        *)
(***************************************************************************)
EmptyDict == <<>>

Range(s) == {s[i] : i \in 1..Len(s)}

\* dict.values() as a set.
Values(f) == {f[x] : x \in DOMAIN f}

RECURSIVE Perms(_)
Perms(S) ==
    IF S = {} THEN {<<>>}
    ELSE UNION {{<<x>> \o p : p \in Perms(S \ {x})} : x \in S}

\* A Python dict as a sequence of <<key, value>> pairs in insertion order.
DictKeys(d) == {d[i][1] : i \in 1..Len(d)}

DictHas(d, k) == k \in DictKeys(d)

DictGet(d, k) == d[CHOOSE i \in 1..Len(d) : d[i][1] = k][2]

\* d[k] = v: an existing key keeps its position, a new key goes last.
DictSet(d, k, v) ==
    IF DictHas(d, k)
    THEN [i \in 1..Len(d) |-> IF d[i][1] = k THEN <<k, v>> ELSE d[i]]
    ELSE Append(d, <<k, v>>)

\* max(d.items(), key=lambda x: x[1])[0]: the first key holding the largest value.
MaxByValue(d) ==
    LET best == CHOOSE i \in 1..Len(d) :
                    /\ \A j \in 1..Len(d) : d[j][2] <= d[i][2]
                    /\ \A j \in 1..(i - 1) : d[j][2] < d[i][2]
    IN  d[best][1]

(***************************************************************************)
(* Strings as token sequences.                                             *)
(***************************************************************************)
None == <<>>

Digits == {"0", "1", "2", "3", "4", "5", "6", "7", "8", "9"}

DigitValue(t) ==
    CASE t = "0" -> 0 [] t = "1" -> 1 [] t = "2" -> 2 [] t = "3" -> 3
      [] t = "4" -> 4 [] t = "5" -> 5 [] t = "6" -> 6 [] t = "7" -> 7
      [] t = "8" -> 8 [] t = "9" -> 9

\* Rank of a token's first character in code-point order.
TokRank(t) ==
    CASE t = ".jpg" -> 1 [] t = ".JPG" -> 1 [] t = ".txt" -> 1
      [] t = "/" -> 2
      [] t \in Digits -> 3 + DigitValue(t)
      [] t = "\\" -> 20
      [] t = "a" -> 30 [] t = "b" -> 31 [] t = "extra" -> 32
      [] t = "images" -> 33 [] t = "my" -> 34 [] t = "n" -> 35
      [] t = "scraped_data" -> 36 [] t = "spot_" -> 37

RECURSIVE StrLess(_, _)
StrLess(s, t) ==
    IF s = <<>> THEN t # <<>>
    ELSE IF t = <<>> THEN FALSE
    ELSE IF s[1] = t[1] THEN StrLess(Tail(s), Tail(t))
    ELSE TokRank(s[1]) < TokRank(t[1])

\* sorted(S) for a set of strings.
RECURSIVE SortedStrings(_)
SortedStrings(S) ==
    IF S = {} THEN <<>>
    ELSE LET m == CHOOSE x \in S : \A y \in S \ {x} : StrLess(x, y)
         IN  <<m>> \o SortedStrings(S \ {m})

\* str.replace(old, new) for one-token old and new.
Replace(s, old, new) == [i \in 1..Len(s) |-> IF s[i] = old THEN new ELSE s[i]]

\* str.replace(old, '') for a one-token old.
Remove(s, old) == SelectSeq(s, LAMBDA t : t # old)

StartsWith(s, p) == Len(p) <= Len(s) /\ SubSeq(s, 1, Len(p)) = p

RECURSIVE SplitAcc(_, _, _, _, _)
SplitAcc(s, sep, i, cur, acc) ==
    IF i > Len(s) THEN Append(acc, cur)
    ELSE IF s[i] = sep THEN SplitAcc(s, sep, i + 1, <<>>, Append(acc, cur))
    ELSE SplitAcc(s, sep, i + 1, Append(cur, s[i]), acc)

\* str.split(sep)
Split(s, sep) == SplitAcc(s, sep, 1, <<>>, <<>>)

Prefixes ==
    << <<"images", "/">>,
       <<"scraped_data", "/", "images", "/">>,
       <<"images", "\\">>,
       <<"scraped_data", "\\", "images", "\\">> >>

RECURSIVE StripPrefix(_, _)
StripPrefix(path, i) ==
    IF i > Len(Prefixes) THEN path
    ELSE IF StartsWith(path, Prefixes[i])
         THEN SubSeq(path, Len(Prefixes[i]) + 1, Len(path))
         ELSE StripPrefix(path, i + 1)

get_spot_folder_from_path(path_str) ==
    LET path  == StripPrefix(Replace(path_str, "\\", "/"), 1)
        parts == Split(path, "/")
        hits  == {i \in 1..Len(parts) : StartsWith(parts[i], <<"spot_">>)}
    IN  IF "spot_" \in Range(path) /\ hits # {}
        THEN parts[CHOOSE i \in hits : \A j \in hits : i <= j]
        ELSE None

\* Path(path_str).name: the last component; the posix flavour separates on
\* "/" only, the nt flavour on "/" and "\\".
get_image_filename_from_path(path_str, flav) ==
    LET path  == IF flav = "nt" THEN Replace(path_str, "\\", "/") ELSE path_str
        parts == SelectSeq(Split(path, "/"), LAMBDA p : p # <<>>)
    IN  IF parts = <<>> THEN <<>> ELSE parts[Len(parts)]

\* img_file.suffix.lower() in ['.jpg', '.jpeg', '.png', '.gif']
IsImageFile(name) ==
    /\ Len(name) >= 2
    /\ name[Len(name)] \in {".jpg", ".JPG"}

\* int(spot_folder.replace('spot_', '')): <<TRUE, n>>, or <<FALSE, 0>> for ValueError.
RECURSIVE DigitsToInt(_, _)
DigitsToInt(s, acc) ==
    IF s = <<>> THEN acc ELSE DigitsToInt(Tail(s), 10 * acc + DigitValue(s[1]))

ParseSpotIndex(spot_folder) ==
    LET rest == Remove(spot_folder, "spot_")
    IN  IF rest # <<>> /\ Range(rest) \subseteq Digits
        THEN <<TRUE, DigitsToInt(rest, 0)>>
        ELSE <<FALSE, 0>>

\* str(n) for a natural number n.
RECURSIVE IntToStr(_)
IntToStr(n) ==
    LET d == CHOOSE t \in Digits : DigitValue(t) = n % 10
    IN  IF n < 10 THEN <<d>> ELSE Append(IntToStr(n \div 10), d)

(***************************************************************************)
(* Inputs of the reconcilers: the enrichment records and the folder tree.  *)
(***************************************************************************)
Spot0 == <<"spot_", "0">>
Spot1 == <<"spot_", "1">>
Spot10 == <<"spot_", "1", "0">>
Spot01 == <<"spot_", "0", "1">>
Extra == <<"extra">>

FolderNames == {Spot0, Spot1, Spot10, Spot01, Extra}

FileA == <<"a", ".jpg">>
FileB == <<"b", ".JPG">>
FileN == <<"n", ".txt">>

NoDir == {<<"no such directory">>}

\* The content of one folder of SPOTS_DIR, or NoDir when there is no such folder.
FolderContents == {NoDir, {FileN}, {FileA}, {FileA, FileB, FileN}}

\* The folder trees tried: two folders that may hold up to two images, one
\* with a two-digit index, one without an index, and one whose index is
\* written with a leading zero (tried next to spot_1, which holds the same
\* index, and spot_0 only).
Disks ==
    { d \in [FolderNames -> FolderContents] :
        /\ d[Spot0] # {FileN}
        /\ d[Spot1] # {FileN}
        /\ d[Spot10] \in {NoDir, {FileA}}
        /\ d[Spot01] \in {NoDir, {FileA}}
        /\ d[Spot01] # NoDir => /\ d[Spot0] \in {NoDir, {FileA}}
                                /\ d[Spot1] = {FileA}
                                /\ d[Spot10] = NoDir
                                /\ d[Extra] = NoDir
        /\ d[Extra] # {FileA, FileB, FileN} }

\* local_path values as the enrichment step declares them.
PathA1 == <<"images", "/">> \o Spot1 \o <<"/">> \o FileA
PathB1 == <<"images", "/">> \o Spot1 \o <<"/">> \o FileB
PathA0 == <<"scraped_data", "/", "images", "/">> \o Spot0 \o <<"/">> \o FileA
PathA0Win == <<"images", "\\">> \o Spot0 \o <<"\\">> \o FileA
PathBare == FileA
PathOld == <<"my", "/", "spot_", "old", "/">> \o FileA
PathEmpty == <<>>

\* google_maps_data.images of one location, as lists of local_path values.
ImageLists ==
    { <<>>,
      <<PathA1>>,
      <<PathB1>>,
      <<PathA1, PathB1>>,
      <<PathA0, PathA1>>,
      <<PathA0Win, PathBare, PathEmpty>>,
      <<PathOld>> }

\* One record of enriched_spots.json, at 0-based position i.
Location(i, imgs) ==
    [ images     |-> imgs,
      place_name |-> <<"Place ">> \o IntToStr(i),
      latitude   |-> 310 + i,
      longitude  |-> 10160 + i ]

EnrichedInputs ==
    UNION { { [i \in 1..n |-> Location(i - 1, il[i])] : il \in [1..n -> ImageLists] }
            : n \in 0..MaxLoc }

(***************************************************************************)
(* fix_spots_mapping_v2.py: build_spot_to_location_mapping                 *)
(***************************************************************************)
\* key = f"{spot_folder}/{filename}" if spot_folder else filename
ImageKey(local_path, flav) ==
    LET filename    == get_image_filename_from_path(local_path, flav)
        spot_folder == get_spot_folder_from_path(local_path)
    IN  IF spot_folder # None THEN spot_folder \o <<"/">> \o filename ELSE filename

\* The loop over one location's images (lines 63-70).
RECURSIVE IndexImages(_, _, _, _, _)
RECURSIVE IndexImagesFirstWins(_, _, _, _, _)
\* Mutant: a key already present keeps its first location.
IndexImagesFirstWins(images, j, loc_idx, acc, flav) ==
    IF j > Len(images) THEN acc
    ELSE IF images[j] # <<>> /\ ~DictHas(acc, ImageKey(images[j], flav))
         THEN IndexImages(images, j + 1, loc_idx,
                          DictSet(acc, ImageKey(images[j], flav), loc_idx), flav)
         ELSE IndexImages(images, j + 1, loc_idx, acc, flav)

IndexImages(images, j, loc_idx, acc, flav) ==
    IF j > Len(images) THEN acc
    ELSE IF images[j] # <<>>
         THEN IndexImages(images, j + 1, loc_idx,
                          DictSet(acc, ImageKey(images[j], flav), loc_idx), flav)
         ELSE IndexImages(images, j + 1, loc_idx, acc, flav)

\* The loop over the locations (lines 59-70): image_to_location.
RECURSIVE BuildImageToLocation(_, _, _, _)
BuildImageToLocation(data, i, acc, flav) ==
    IF i > Len(data) THEN acc
    ELSE BuildImageToLocation(data, i + 1,
             IndexImages(data[i].images, 1, i - 1, acc, flav), flav)

ImageFilesOf(d, folder) == {f \in d[folder] : IsImageFile(f)}

\* The folders of SPOTS_DIR that hold at least one image file.
FoldersWithImages(d) ==
    {f \in FolderNames : d[f] # NoDir /\ ImageFilesOf(d, f) # {}}

\* The orders in which iterdir() may list each folder's image files.
FileOrders(d) ==
    [FoldersWithImages(d) -> UNION {Perms(ImageFilesOf(d, f)) : f \in FoldersWithImages(d)}]

IsFileOrder(d, order) ==
    \A f \in FoldersWithImages(d) : order[f] \in Perms(ImageFilesOf(d, f))

\* The loop over one folder's files looking a file up by its bare name when
\* the key made of folder and file name is absent.
RECURSIVE TallyVotesBareFallback(_, _, _, _, _)
TallyVotesBareFallback(spot_folder, image_files, k, i2l, votes) ==
    IF k > Len(image_files) THEN votes
    ELSE LET full == spot_folder \o <<"/">> \o image_files[k]
             key  == IF DictHas(i2l, full) THEN full ELSE image_files[k]
         IN  IF DictHas(i2l, key)
             THEN LET loc_idx == DictGet(i2l, key)
                      old == IF DictHas(votes, loc_idx) THEN DictGet(votes, loc_idx) ELSE 0
                  IN  TallyVotesBareFallback(spot_folder, image_files, k + 1, i2l,
                                             DictSet(votes, loc_idx, old + 1))
             ELSE TallyVotesBareFallback(spot_folder, image_files, k + 1, i2l, votes)

\* The loop over one folder's files (lines 91-95): the folder's votes.
RECURSIVE TallyVotes(_, _, _, _, _)
TallyVotes(spot_folder, image_files, k, i2l, votes) ==
    IF k > Len(image_files) THEN votes
    ELSE LET key == spot_folder \o <<"/">> \o image_files[k]
         IN  IF DictHas(i2l, key)
             THEN LET loc_idx == DictGet(i2l, key)
                      old == IF DictHas(votes, loc_idx) THEN DictGet(votes, loc_idx) ELSE 0
                  IN  TallyVotes(spot_folder, image_files, k + 1, i2l,
                                 DictSet(votes, loc_idx, old + 1))
             ELSE TallyVotes(spot_folder, image_files, k + 1, i2l, votes)

\* spot_to_location_votes: only a folder with a matching key gets an entry.
BuildVotes(existing, i2l) ==
    LET all == [f \in DOMAIN existing |-> TallyVotes(f, existing[f], 1, i2l, EmptyDict)]
    IN  [f \in {g \in DOMAIN existing : all[g] # EmptyDict} |-> all[f]]

\* best_location = max(votes.items(), key=lambda x: x[1])[0]   (line 101)
BestLocation(votes) == MaxByValue(votes)

\* Lines 98-102: spot_to_location.
ChooseLocations(votes_by_folder) ==
    [f \in DOMAIN votes_by_folder |-> BestLocation(votes_by_folder[f])]

(***************************************************************************)
(* get_existing_images and the spots loop of fix_spots_json                *)
(***************************************************************************)
\* get_existing_images: folder -> sorted(image file names).
get_existing_images(d) ==
    [f \in FoldersWithImages(d) |-> SortedStrings(ImageFilesOf(d, f))]

ImagePaths(spot_folder, files) ==
    [k \in 1..Len(files) |-> <<"images/spots/">> \o spot_folder \o <<"/">> \o files[k]]

\* The loop body naming an unresolved folder's record after its id.
BuildSpotNameFromId(spot_folder, existing, s2l, data, sofar) ==
    LET images == ImagePaths(spot_folder, existing[spot_folder])
        has    == spot_folder \in DOMAIN s2l
    IN  IF has /\ s2l[spot_folder] < Len(data)
        THEN LET location == data[s2l[spot_folder] + 1]
             IN  [ id     |-> Len(sofar) + 1,
                   name   |-> location.place_name,
                   lat    |-> location.latitude,
                   lng    |-> location.longitude,
                   images |-> images ]
        ELSE [ id     |-> Len(sofar) + 1,
               name   |-> <<"Drone Spot ">> \o IntToStr(Len(sofar) + 1),
               lat    |-> 0,
               lng    |-> 0,
               images |-> images ]

\* The loop body with the id taken from the folder's index.
BuildSpotIdFromFolder(spot_folder, existing, s2l, data, sofar) ==
    LET images   == ImagePaths(spot_folder, existing[spot_folder])
        has      == spot_folder \in DOMAIN s2l
        parsed   == ParseSpotIndex(spot_folder)
        spot_idx == IF parsed[1] THEN parsed[2] ELSE Len(sofar)
    IN  IF has /\ s2l[spot_folder] < Len(data)
        THEN LET location == data[s2l[spot_folder] + 1]
             IN  [ id     |-> spot_idx + 1,
                   name   |-> location.place_name,
                   lat    |-> location.latitude,
                   lng    |-> location.longitude,
                   images |-> images ]
        ELSE [ id     |-> spot_idx + 1,
               name   |-> <<"Drone Spot ">> \o IntToStr(spot_idx + 1),
               lat    |-> 0,
               lng    |-> 0,
               images |-> images ]

\* One pass of the loop body (v2 lines 143-185, v1 lines 180-222).
BuildSpot(spot_folder, existing, s2l, data, sofar) ==
    LET images == ImagePaths(spot_folder, existing[spot_folder])
        has    == spot_folder \in DOMAIN s2l
    IN  IF has /\ s2l[spot_folder] < Len(data)
        THEN LET loc_idx  == s2l[spot_folder]
                 location == data[loc_idx + 1]
             IN  [ id     |-> Len(sofar) + 1,
                   name   |-> location.place_name,
                   lat    |-> location.latitude,
                   lng    |-> location.longitude,
                   images |-> images ]
        ELSE LET parsed   == ParseSpotIndex(spot_folder)
                 spot_idx == IF parsed[1] THEN parsed[2] ELSE Len(sofar)
             IN  [ id     |-> Len(sofar) + 1,
                   name   |-> <<"Drone Spot ">> \o IntToStr(spot_idx + 1),
                   lat    |-> 0,
                   lng    |-> 0,
                   images |-> images ]

RECURSIVE BuildSpots(_, _, _, _, _, _)
BuildSpots(folders, i, existing, s2l, data, sofar) ==
    IF i > Len(folders) THEN sofar
    ELSE BuildSpots(folders, i + 1, existing, s2l, data,
                    Append(sofar, BuildSpot(folders[i], existing, s2l, data, sofar)))

(***************************************************************************)
(* The run of fix_spots_mapping_v2.py                                      *)
(***************************************************************************)
\* The variables of a script that is not the one run.
IdleReconcile ==
    /\ flavour = "posix"
    /\ labeled_exists = FALSE
    /\ disk = <<>>
    /\ image_to_location = EmptyDict
    /\ spot_votes = <<>>
    /\ spot_to_location = <<>>
    /\ location_to_spot = EmptyDict

IdleCorrect ==
    /\ idx = 0
    /\ new_coords = None
    /\ distance = 0
    /\ corrected_count = 0
    /\ unchanged_count = 0
    /\ error_count = 0
    /\ corrections = <<>>
    /\ backup_file = <<>>
    /\ events = <<>>

IdleFilter ==
    /\ input_exists = FALSE
    /\ bounds = <<>>
    /\ spots_file = <<>>
    /\ malaysia_spots = <<>>
    /\ removed_count = 0
    /\ loaded = <<>>

InitReconciler ==
    /\ pc = "start"
    /\ flavour \in {"posix", "nt"}
    /\ labeled_exists \in BOOLEAN
    /\ enriched_exists \in BOOLEAN
    /\ enriched_data \in EnrichedInputs
    /\ enriched_exists = FALSE => enriched_data = <<>>
    /\ disk \in Disks
    /\ image_to_location = EmptyDict
    /\ spot_votes = <<>>
    /\ spot_to_location = <<>>
    /\ location_to_spot = EmptyDict
    /\ spots = <<>>
    /\ reported = {}
    /\ files_written = {}
    /\ IdleCorrect
    /\ IdleFilter

\* build_spot_to_location_mapping returns {} and the caller's unpacking of
\* two values raises ValueError (lines 42-44, 50-52, 133).
BuildMappingV2Fails ==
    /\ pc = "start"
    /\ ~labeled_exists \/ ~enriched_exists
    /\ reported' = IF ~labeled_exists THEN {"labeled file not found"}
                   ELSE {"enriched file not found"}
    /\ pc' = "crashed"
    /\ UNCHANGED <<flavour, labeled_exists, enriched_exists, enriched_data,
                   disk, image_to_location, spot_votes, spot_to_location,
                   location_to_spot, spots, files_written, correctVars,
                   filterVars>>

\* build_spot_to_location_mapping (lines 39-106) with both files present.
BuildMappingV2 ==
    /\ pc = "start"
    /\ labeled_exists /\ enriched_exists
    /\ \E order \in FileOrders(disk) :
          /\ IsFileOrder(disk, order)
          /\ LET i2l   == BuildImageToLocation(enriched_data, 1, EmptyDict, flavour)
                 votes == BuildVotes(order, i2l)
             IN  /\ image_to_location' = i2l
                 /\ spot_votes' = votes
                 /\ spot_to_location' = ChooseLocations(votes)
    /\ pc' = "mapped"
    /\ UNCHANGED <<flavour, labeled_exists, enriched_exists, enriched_data,
                   disk, location_to_spot, spots, reported, files_written,
                   correctVars, filterVars>>

\* fix_spots_json after the mapping is built (lines 136-189).
AssembleV2 ==
    /\ pc = "mapped"
    /\ LET existing == get_existing_images(disk)
           folders  == SortedStrings(DOMAIN existing)
       IN  spots' = BuildSpots(folders, 1, existing, spot_to_location, enriched_data, <<>>)
    /\ files_written' = files_written \cup {"OUTPUT_FILE"}
    /\ pc' = "done"
    /\ UNCHANGED <<flavour, labeled_exists, enriched_exists, enriched_data,
                   disk, image_to_location, spot_votes, spot_to_location,
                   location_to_spot, reported, correctVars, filterVars>>

(***************************************************************************)
(* fix_spots_mapping.py                                                    *)
(***************************************************************************)
\* spot_counts of one location (lines 69-75), in first-seen order.
RECURSIVE CountSpots(_, _, _)
CountSpots(images, j, counts) ==
    IF j > Len(images) THEN counts
    ELSE LET spot_folder == get_spot_folder_from_path(images[j])
         IN  IF images[j] # <<>> /\ spot_folder # None
             THEN LET old == IF DictHas(counts, spot_folder)
                             THEN DictGet(counts, spot_folder) ELSE 0
                  IN  CountSpots(images, j + 1, DictSet(counts, spot_folder, old + 1))
             ELSE CountSpots(images, j + 1, counts)

\* build_location_to_spot_mapping (lines 53-83): location_to_spot.
RECURSIVE BuildLocationToSpot(_, _, _)
BuildLocationToSpot(data, i, acc) ==
    IF i > Len(data) THEN acc
    ELSE LET spot_counts == CountSpots(data[i].images, 1, EmptyDict)
         IN  IF spot_counts # EmptyDict
             THEN BuildLocationToSpot(data, i + 1,
                                      DictSet(acc, i - 1, MaxByValue(spot_counts)))
             ELSE BuildLocationToSpot(data, i + 1, acc)

\* The primary pass (lines 129-136): the first location of each folder on disk.
RECURSIVE PrimaryPass(_, _, _, _)
PrimaryPass(l2s, i, existing, s2l) ==
    IF i > Len(l2s) THEN s2l
    ELSE LET loc_idx     == l2s[i][1]
             spot_folder == l2s[i][2]
         IN  IF spot_folder \in existing /\ spot_folder \notin DOMAIN s2l
             THEN PrimaryPass(l2s, i + 1, existing,
                      [f \in DOMAIN s2l \cup {spot_folder} |->
                          IF f = spot_folder THEN loc_idx ELSE s2l[f]])
             ELSE PrimaryPass(l2s, i + 1, existing, s2l)

\* location_spots of lines 153-156; None is a member when a path holds no folder.
LocationSpots(location) ==
    {get_spot_folder_from_path(p) : p \in Range(location.images) \ {<<>>}}

\* The fallback condition without the look at the location's declared images.
FallbackAppliesIgnoringImages(spot_folder, s2l, mapped_locations, data) ==
    LET parsed   == ParseSpotIndex(spot_folder)
        spot_idx == parsed[2]
    IN  /\ spot_folder \notin DOMAIN s2l
        /\ parsed[1]
        /\ spot_idx < Len(data)
        /\ spot_idx \notin mapped_locations

\* Whether the positional fallback assigns spot_folder (lines 143-158).
FallbackApplies(spot_folder, s2l, mapped_locations, data) ==
    LET parsed   == ParseSpotIndex(spot_folder)
        spot_idx == parsed[2]
    IN  /\ spot_folder \notin DOMAIN s2l
        /\ parsed[1]
        /\ spot_idx < Len(data)
        /\ spot_idx \notin mapped_locations
        /\ LET location_spots == LocationSpots(data[spot_idx + 1])
           IN  location_spots = {} \/ spot_folder \in location_spots

\* The fallback loop without the record of the locations it has claimed.
RECURSIVE FallbackPassForgetsClaimed(_, _, _, _, _)
FallbackPassForgetsClaimed(folders, i, s2l, mapped_locations, data) ==
    IF i > Len(folders) THEN s2l
    ELSE IF FallbackApplies(folders[i], s2l, mapped_locations, data)
         THEN LET spot_idx == ParseSpotIndex(folders[i])[2]
              IN  FallbackPassForgetsClaimed(folders, i + 1,
                      [f \in DOMAIN s2l \cup {folders[i]} |->
                          IF f = folders[i] THEN spot_idx ELSE s2l[f]],
                      mapped_locations, data)
         ELSE FallbackPassForgetsClaimed(folders, i + 1, s2l, mapped_locations, data)

\* The fallback loop (lines 141-162) over the folders in iterdir order.
RECURSIVE FallbackPass(_, _, _, _, _)
FallbackPass(folders, i, s2l, mapped_locations, data) ==
    IF i > Len(folders) THEN s2l
    ELSE IF FallbackApplies(folders[i], s2l, mapped_locations, data)
         THEN LET spot_idx == ParseSpotIndex(folders[i])[2]
              IN  FallbackPass(folders, i + 1,
                      [f \in DOMAIN s2l \cup {folders[i]} |->
                          IF f = folders[i] THEN spot_idx ELSE s2l[f]],
                      mapped_locations \cup {spot_idx}, data)
         ELSE FallbackPass(folders, i + 1, s2l, mapped_locations, data)

\* build_location_to_spot_mapping returns {} and the caller's unpacking of
\* two values raises ValueError (lines 41-43, 111).
BuildMappingV1Fails ==
    /\ pc = "start"
    /\ ~enriched_exists
    /\ reported' = {"enriched file not found"}
    /\ pc' = "v1_crashed"
    /\ UNCHANGED <<flavour, labeled_exists, enriched_exists, enriched_data,
                   disk, image_to_location, spot_votes, spot_to_location,
                   location_to_spot, spots, files_written, correctVars,
                   filterVars>>

\* build_location_to_spot_mapping (lines 39-83).
BuildMappingV1 ==
    /\ pc = "start"
    /\ enriched_exists
    /\ location_to_spot' = BuildLocationToSpot(enriched_data, 1, EmptyDict)
    /\ pc' = "v1_built"
    /\ UNCHANGED <<flavour, labeled_exists, enriched_exists, enriched_data,
                   disk, image_to_location, spot_votes, spot_to_location,
                   spots, reported, files_written, correctVars, filterVars>>

\* fix_spots_json, lines 128-136.
PrimaryV1 ==
    /\ pc = "v1_built"
    /\ spot_to_location' =
           PrimaryPass(location_to_spot, 1, FoldersWithImages(disk), <<>>)
    /\ pc' = "v1_primary"
    /\ UNCHANGED <<flavour, labeled_exists, enriched_exists, enriched_data,
                   disk, image_to_location, spot_votes, location_to_spot,
                   spots, reported, files_written, correctVars, filterVars>>

\* fix_spots_json, lines 138-162; existing_images.keys() is in iterdir order.
FallbackV1 ==
    /\ pc = "v1_primary"
    /\ \E folders \in Perms(FoldersWithImages(disk)) :
          spot_to_location' =
              FallbackPass(folders, 1, spot_to_location,
                           Values(spot_to_location), enriched_data)
    /\ pc' = "v1_mapped"
    /\ UNCHANGED <<flavour, labeled_exists, enriched_exists, enriched_data,
                   disk, image_to_location, spot_votes, location_to_spot,
                   spots, reported, files_written, correctVars, filterVars>>

\* fix_spots_json, lines 177-226.
AssembleV1 ==
    /\ pc = "v1_mapped"
    /\ LET existing == get_existing_images(disk)
           folders  == SortedStrings(DOMAIN existing)
       IN  spots' = BuildSpots(folders, 1, existing, spot_to_location, enriched_data, <<>>)
    /\ files_written' = files_written \cup {"OUTPUT_FILE"}
    /\ pc' = "v1_done"
    /\ UNCHANGED <<flavour, labeled_exists, enriched_exists, enriched_data,
                   disk, image_to_location, spot_votes, spot_to_location,
                   location_to_spot, reported, correctVars, filterVars>>

NextReconcile ==
    \/ BuildMappingV2Fails
    \/ BuildMappingV2
    \/ AssembleV2
    \/ BuildMappingV1Fails
    \/ BuildMappingV1
    \/ PrimaryV1
    \/ FallbackV1
    \/ AssembleV1

\* Either reconciler run on the same inputs.
SpecReconcile == InitReconciler /\ [][NextReconcile]_vars


(***************************************************************************)
(* correct_coordinates_crawlee.py: calculate_distance                      *)
(*                                                                         *)
(* Degrees are integers in hundredths of a degree.  Reals in [0, 2) are    *)
(* fixed-point integers with 29 fractional bits, and every intermediate    *)
(* product stays below 2^31.  Distances are metres, rounded down.  The     *)
(* operands must keep |lat| <= 90 degrees and |lon2 - lon1| <= 180.        *)
(***************************************************************************)
One == 2 ^ 29

Abs(x) == IF x < 0 THEN 0 - x ELSE x

\* a * b for fixed-point a, b in [0, 2), rounded down.
FxMul(a, b) ==
    LET ah == a \div (2 ^ 15)
        al == a % (2 ^ 15)
        bh == b \div (2 ^ 15)
        bl == b % (2 ^ 15)
    IN  2 * ah * bh + (ah * bl + al * bh) \div (2 ^ 14) + (al * bl) \div One

\* pi / 180 / 100 in fixed point: radians per hundredth of a degree.
RadPerCentiDeg == 93702

\* math.radians of an angle in hundredths of a degree; the sign is dropped,
\* which sin(x) ** 2 and cos(x) do as well.
Radians(d) == Abs(d) * RadPerCentiDeg

\* math.sin(x) for 0 <= x <= pi / 2 (Taylor series to x^9).
Sin(x) ==
    LET x2 == FxMul(x, x)
        t4 == One - x2 \div 72
        t3 == One - FxMul(x2, t4) \div 42
        t2 == One - FxMul(x2, t3) \div 20
        t1 == One - FxMul(x2, t2) \div 6
    IN  FxMul(x, t1)

\* math.cos(x) for 0 <= x <= pi / 2 (Taylor series to x^10).
Cos(x) ==
    LET x2 == FxMul(x, x)
        t5 == One - x2 \div 90
        t4 == One - FxMul(x2, t5) \div 56
        t3 == One - FxMul(x2, t4) \div 30
        t2 == One - FxMul(x2, t3) \div 12
    IN  One - FxMul(x2, t2) \div 2

\* The term a with the cosine of the first latitude taken twice.
HaversineOneLatitude(lat1, lon1, lat2, lon2) ==
    LET sdlat == Sin(Radians(lat2 - lat1) \div 2)
        sdlon == Sin(Radians(lon2 - lon1) \div 2)
        a     == FxMul(sdlat, sdlat)
                 + FxMul(FxMul(Cos(Radians(lat1)), Cos(Radians(lat1))),
                         FxMul(sdlon, sdlon))
    IN  IF a > One THEN One ELSE a

\* The term a of lines 38-40.
Haversine(lat1, lon1, lat2, lon2) ==
    LET sdlat == Sin(Radians(lat2 - lat1) \div 2)
        sdlon == Sin(Radians(lon2 - lon1) \div 2)
        a     == FxMul(sdlat, sdlat)
                 + FxMul(FxMul(Cos(Radians(lat1)), Cos(Radians(lat2))),
                         FxMul(sdlon, sdlon))
    IN  IF a > One THEN One ELSE a

\* atan2(sqrt(a), sqrt(1 - a)): the least angle t in [0, pi / 2] with
\* sin(t) ** 2 >= a, found by bisection.
RECURSIVE AngleOf(_, _, _)
AngleOf(a, lo, hi) ==
    IF lo >= hi THEN lo
    ELSE LET mid == (lo + hi) \div 2
             s   == Sin(mid)
         IN  IF FxMul(s, s) >= a THEN AngleOf(a, lo, mid)
             ELSE AngleOf(a, mid + 1, hi)

\* Earth's radius in kilometres (line 33).
R == 6371

\* Fixed-point units of the half angle per kilometre of R * c, c = 2 * angle.
UnitsPerKm == (One + R) \div (2 * R)

\* calculate_distance (lines 31-43), in metres.
calculate_distance(lat1, lon1, lat2, lon2) ==
    LET t == AngleOf(Haversine(lat1, lon1, lat2, lon2), 0, Radians(9000))
    IN  (t \div UnitsPerKm) * 1000 + ((t % UnitsPerKm) * 1000) \div UnitsPerKm

\* DISTANCE_THRESHOLD_KM (line 25)
DISTANCE_THRESHOLD_KM == 5

(***************************************************************************)
(* correct_coordinates_crawlee.py: the lookup                              *)
(***************************************************************************)
\* The extraction returning whatever coordinates the string carries.
ExtractCoordsUnchecked(found) == found

\* extract_coords_from_url (lines 46-67) on the coordinates a string carries:
\* coordinates outside latitude 0..10, longitude 99..120 are not returned.
extract_coords_from_url(found) ==
    IF found = None THEN None
    ELSE IF 0 <= found[1] /\ found[1] <= 1000 /\ 9900 <= found[2] /\ found[2] <= 12000
         THEN found
         ELSE None

\* What a loaded page carries in its URL, in a data-value attribute and in its
\* title: coordinates or None.  A failed load carries nothing.
Pages ==
    { <<None, None, None>>,
      <<<<314, 10160>>, None, None>>,
      <<<<315, 10162>>, None, None>>,
      <<<<1001, 12000>>, <<1000, 12000>>, None>>,
      <<None, None, <<310, 9000>> >> }

\* scrape_google_maps_coords (lines 70-153): the first source that yields
\* coordinates, None when the query is empty or nothing is found.
scrape_google_maps_coords(place_name, address, page) ==
    LET query == IF place_name # <<>> THEN place_name ELSE address
        url   == extract_coords_from_url(page[1])
        data  == extract_coords_from_url(page[2])
        title == extract_coords_from_url(page[3])
    IN  IF query = <<>> THEN None
        ELSE IF url # None THEN url
        ELSE IF data # None THEN data
        ELSE title

(***************************************************************************)
(* correct_coordinates_crawlee.py: correct_coordinates                     *)
(***************************************************************************)
\* The enrichment records tried: a named place, a record with an address but
\* no place name, and a named place whose coordinates are missing (0, 0).
CorrectLocations ==
    { [place_name |-> <<"KLCC">>, address |-> <<>>,
       latitude |-> 310, longitude |-> 10160],
      [place_name |-> <<>>, address |-> <<"Jalan Ampang">>,
       latitude |-> 310, longitude |-> 10160],
      [place_name |-> <<"Batu Caves">>, address |-> <<"Gombak">>,
       latitude |-> 0, longitude |-> 0] }

MaxCorrectLoc == 3      \* most locations in enriched_spots.json of a correction run

CorrectInputs == UNION {[1..n -> CorrectLocations] : n \in 0..MaxCorrectLoc}

InitCorrect ==
    /\ pc = "cc_start"
    /\ enriched_exists \in BOOLEAN
    /\ enriched_data \in CorrectInputs
    /\ enriched_exists = FALSE => enriched_data = <<>>
    /\ spots = <<>>
    /\ reported = {}
    /\ files_written = {}
    /\ IdleReconcile
    /\ IdleCorrect
    /\ IdleFilter

\* The absent enrichment file reported, and the backup written all the same.
CorrectStartMissingWritesBackup ==
    /\ pc = "cc_start"
    /\ ~enriched_exists
    /\ reported' = reported \cup {"enriched file not found"}
    /\ files_written' = files_written \cup {"BACKUP_FILE"}
    /\ pc' = "cc_no_input"
    /\ UNCHANGED <<enriched_exists, enriched_data, spots,
                   reconcileVars, correctVars, filterVars>>

\* Lines 163-165: the enrichment file is absent.
CorrectStartMissing ==
    /\ pc = "cc_start"
    /\ ~enriched_exists
    /\ reported' = reported \cup {"enriched file not found"}
    /\ pc' = "cc_no_input"
    /\ UNCHANGED <<enriched_exists, enriched_data, spots, files_written,
                   reconcileVars, correctVars, filterVars>>

\* Lines 167-186: load the data, write the backup, reset the counters.
CorrectStart ==
    /\ pc = "cc_start"
    /\ enriched_exists
    /\ backup_file' = enriched_data
    /\ files_written' = files_written \cup {"BACKUP_FILE"}
    /\ corrected_count' = 0
    /\ unchanged_count' = 0
    /\ error_count' = 0
    /\ corrections' = <<>>
    /\ idx' = 0
    /\ pc' = "cc_loop"
    /\ UNCHANGED <<enriched_exists, enriched_data, spots, reported, new_coords,
                   distance, events, reconcileVars, filterVars>>

\* A location without a place name skipped without being counted.
SkipUnnamedUncounted ==
    /\ pc = "cc_loop"
    /\ idx < Len(enriched_data)
    /\ enriched_data[idx + 1].place_name = <<>>
    /\ idx' = idx + 1
    /\ UNCHANGED <<sharedVars, new_coords, distance, corrected_count,
                   unchanged_count, error_count, corrections, backup_file,
                   events, reconcileVars, filterVars>>

\* Lines 191-201: a location without a place name is skipped.
SkipUnnamed ==
    /\ pc = "cc_loop"
    /\ idx < Len(enriched_data)
    /\ enriched_data[idx + 1].place_name = <<>>
    /\ unchanged_count' = unchanged_count + 1
    /\ idx' = idx + 1
    /\ UNCHANGED <<sharedVars, new_coords, distance, corrected_count, error_count,
                   corrections, backup_file, events, reconcileVars, filterVars>>

\* Lines 204-205: the lookup is issued and awaited.
StartLookup ==
    /\ pc = "cc_loop"
    /\ idx < Len(enriched_data)
    /\ enriched_data[idx + 1].place_name # <<>>
    /\ events' = Append(events, <<"lookup", idx, None>>)
    /\ pc' = "cc_lookup"
    /\ UNCHANGED <<enriched_exists, enriched_data, spots, reported, files_written,
                   idx, new_coords, distance, corrected_count, unchanged_count,
                   error_count, corrections, backup_file, reconcileVars, filterVars>>

\* The lookup returning with the delay taken only after a candidate was found.
LookupReturnsNoDelayOnFailure ==
    /\ pc = "cc_lookup"
    /\ \E page \in Pages :
          LET location == enriched_data[idx + 1]
          IN  new_coords' = scrape_google_maps_coords(location.place_name,
                                                      location.address, page)
    /\ events' = Append(events, <<"return", idx, new_coords'>>)
    /\ pc' = IF new_coords' = None THEN "cc_decide" ELSE "cc_sleep"
    /\ UNCHANGED <<enriched_exists, enriched_data, spots, reported, files_written,
                   idx, distance, corrected_count, unchanged_count, error_count,
                   corrections, backup_file, reconcileVars, filterVars>>

\* Line 205: the lookup returns; line 208 then starts the delay.
LookupReturns ==
    /\ pc = "cc_lookup"
    /\ \E page \in Pages :
          LET location == enriched_data[idx + 1]
          IN  new_coords' = scrape_google_maps_coords(location.place_name,
                                                      location.address, page)
    /\ events' = Append(events, <<"return", idx, new_coords'>>)
    /\ pc' = "cc_sleep"
    /\ UNCHANGED <<enriched_exists, enriched_data, spots, reported, files_written,
                   idx, distance, corrected_count, unchanged_count, error_count,
                   corrections, backup_file, reconcileVars, filterVars>>

\* Line 208: asyncio.sleep(REQUEST_DELAY) completes.
DelayElapses ==
    /\ pc = "cc_sleep"
    /\ events' = Append(events, <<"delay", idx, None>>)
    /\ pc' = "cc_decide"
    /\ UNCHANGED <<enriched_exists, enriched_data, spots, reported, files_written,
                   idx, new_coords, distance, corrected_count, unchanged_count,
                   error_count, corrections, backup_file, reconcileVars, filterVars>>

\* A threshold test that every candidate passes.
ExceedsThresholdAlways(d) == d >= 0

\* Line 214: distance > DISTANCE_THRESHOLD_KM, with d in metres.
ExceedsThreshold(d) == d > DISTANCE_THRESHOLD_KM * 1000

\* The decision step saving the corrected data as soon as a correction is made.
DecideAndSave ==
    /\ pc = "cc_decide"
    /\ LET location    == enriched_data[idx + 1]
           current_lat == location.latitude
           current_lng == location.longitude
       IN  IF new_coords # None
           THEN LET d == calculate_distance(current_lat, current_lng,
                                            new_coords[1], new_coords[2])
                IN  /\ distance' = d
                    /\ IF ExceedsThreshold(d)
                       THEN /\ enriched_data' =
                                   [enriched_data EXCEPT
                                       ![idx + 1].latitude = new_coords[1],
                                       ![idx + 1].longitude = new_coords[2]]
                            /\ corrected_count' = corrected_count + 1
                            /\ corrections' =
                                   Append(corrections,
                                          [ index       |-> idx,
                                            name        |-> location.place_name,
                                            old_coords  |-> <<current_lat, current_lng>>,
                                            new_coords  |-> new_coords,
                                            distance_km |-> d ])
                            /\ files_written' = files_written \cup {"CORRECTED_FILE"}
                            /\ UNCHANGED <<unchanged_count, error_count>>
                       ELSE /\ unchanged_count' = unchanged_count + 1
                            /\ UNCHANGED <<enriched_data, corrected_count,
                                           corrections, error_count, files_written>>
           ELSE /\ error_count' = error_count + 1
                /\ UNCHANGED <<enriched_data, distance, corrected_count,
                               unchanged_count, corrections, files_written>>
    /\ idx' = idx + 1
    /\ pc' = "cc_loop"
    /\ UNCHANGED <<enriched_exists, spots, reported, new_coords,
                   backup_file, events, reconcileVars, filterVars>>

\* Lines 210-236: accept the candidate past the threshold, else keep.
Decide ==
    /\ pc = "cc_decide"
    /\ LET location    == enriched_data[idx + 1]
           current_lat == location.latitude
           current_lng == location.longitude
       IN  IF new_coords # None
           THEN LET d == calculate_distance(current_lat, current_lng,
                                            new_coords[1], new_coords[2])
                IN  /\ distance' = d
                    /\ IF ExceedsThreshold(d)
                       THEN /\ enriched_data' =
                                   [enriched_data EXCEPT
                                       ![idx + 1].latitude = new_coords[1],
                                       ![idx + 1].longitude = new_coords[2]]
                            /\ corrected_count' = corrected_count + 1
                            /\ corrections' =
                                   Append(corrections,
                                          [ index       |-> idx,
                                            name        |-> location.place_name,
                                            old_coords  |-> <<current_lat, current_lng>>,
                                            new_coords  |-> new_coords,
                                            distance_km |-> d ])
                            /\ UNCHANGED <<unchanged_count, error_count>>
                       ELSE /\ unchanged_count' = unchanged_count + 1
                            /\ UNCHANGED <<enriched_data, corrected_count,
                                           corrections, error_count>>
           ELSE /\ error_count' = error_count + 1
                /\ UNCHANGED <<enriched_data, distance, corrected_count,
                               unchanged_count, corrections>>
    /\ idx' = idx + 1
    /\ pc' = "cc_loop"
    /\ UNCHANGED <<enriched_exists, spots, reported, files_written, new_coords,
                   backup_file, events, reconcileVars, filterVars>>

\* Line 239: asyncio.run returns once every location has been processed.
PassCompletes ==
    /\ pc = "cc_loop"
    /\ idx = Len(enriched_data)
    /\ pc' = "cc_summary"
    /\ UNCHANGED <<enriched_exists, enriched_data, spots, reported, files_written,
                   reconcileVars, correctVars, filterVars>>

\* Lines 241-280: the summary; the files are saved when something changed.
SaveCorrected ==
    /\ pc = "cc_summary"
    /\ files_written' =
           IF corrected_count > 0
           THEN files_written \cup {"CORRECTED_FILE", "ENRICHED_FILE"}
           ELSE files_written
    /\ pc' = "cc_done"
    /\ UNCHANGED <<enriched_exists, enriched_data, spots, reported,
                   reconcileVars, correctVars, filterVars>>

\* The process is killed from outside while process_locations runs.
Kill ==
    /\ pc \in {"cc_loop", "cc_lookup", "cc_sleep", "cc_decide"}
    /\ pc' = "cc_killed"
    /\ UNCHANGED <<enriched_exists, enriched_data, spots, reported, files_written,
                   reconcileVars, correctVars, filterVars>>

NextCorrect ==
    \/ CorrectStartMissing
    \/ CorrectStart
    \/ SkipUnnamed
    \/ StartLookup
    \/ LookupReturns
    \/ DelayElapses
    \/ Decide
    \/ PassCompletes
    \/ SaveCorrected
    \/ Kill

SpecCorrect == InitCorrect /\ [][NextCorrect]_vars

(***************************************************************************)
(* filter_malaysia_only.py                                                 *)
(***************************************************************************)
MaxSpots == 2      \* most records in spots-simple.json

\* Lines 18-21, in hundredths of a degree.
MALAYSIA_LAT_MIN == 80
MALAYSIA_LAT_MAX == 740
MALAYSIA_LNG_MIN == 9960
MALAYSIA_LNG_MAX == 11930

\* The bounds as shipped, and a configuration whose box holds (0, 0).
BoundsConfigs ==
    { [lat_min |-> MALAYSIA_LAT_MIN, lat_max |-> MALAYSIA_LAT_MAX,
       lng_min |-> MALAYSIA_LNG_MIN, lng_max |-> MALAYSIA_LNG_MAX],
      [lat_min |-> 0 - 100, lat_max |-> MALAYSIA_LAT_MAX,
       lng_min |-> 0 - 100, lng_max |-> MALAYSIA_LNG_MAX] }

\* str.lower() on the tokens used in the records.
LowerTok(t) ==
    CASE t = "Singapore" -> "singapore"
      [] t = "SINGAPORE" -> "singapore"
      [] t = "Pulau" -> "pulau"
      [] t = "Ubin" -> "ubin"
      [] t = "Marina Bay" -> "marina bay"
      [] t = "KLCC Park" -> "klcc park"
      [] t = "Kuala Lumpur" -> "kuala lumpur"
      [] t = "Drone Spot 1" -> "drone spot 1"
      [] t = "Tanjung Piai" -> "tanjung piai"
      [] t = "Bangkok" -> "bangkok"
      [] OTHER -> t

Lower(s) == [i \in 1..Len(s) |-> LowerTok(s[i])]

\* sub in s
Contains(s, sub) ==
    \E i \in 0..(Len(s) - Len(sub)) : SubSeq(s, i + 1, i + Len(sub)) = sub

\* The markers of line 30.
ExcludedMarkers == { <<"singapore">>, <<"pulau", " ", "ubin">> }

\* The location test with the bounds taken exclusive.
IsMalaysiaExclusive(lat, lng, name, description, address, b) ==
    IF lat = 0 /\ lng = 0 THEN FALSE
    ELSE LET text == Lower(name \o <<" ">> \o description \o <<" ">> \o address)
         IN  IF \E m \in ExcludedMarkers : Contains(text, m) THEN FALSE
             ELSE /\ b.lat_min < lat /\ lat < b.lat_max
                  /\ b.lng_min < lng /\ lng < b.lng_max

\* is_malaysia_location (lines 23-35) under the bounds b.
is_malaysia_location(lat, lng, name, description, address, b) ==
    IF lat = 0 /\ lng = 0 THEN FALSE
    ELSE LET text == Lower(name \o <<" ">> \o description \o <<" ">> \o address)
         IN  IF \E m \in ExcludedMarkers : Contains(text, m) THEN FALSE
             ELSE /\ b.lat_min <= lat /\ lat <= b.lat_max
                  /\ b.lng_min <= lng /\ lng <= b.lng_max

\* The records tried, without their id.
FilterRecords ==
    { [name |-> <<"KLCC Park">>, description |-> <<>>,
       address |-> <<"Kuala Lumpur">>, lat |-> 315, lng |-> 10171],
      [name |-> <<"Marina Bay">>, description |-> <<>>,
       address |-> <<"SINGAPORE">>, lat |-> 128, lng |-> 10385],
      [name |-> <<"Pulau">>, description |-> <<"Ubin", " ", "jetty">>,
       address |-> <<>>, lat |-> 141, lng |-> 10396],
      [name |-> <<"Drone Spot 1">>, description |-> <<>>,
       address |-> <<>>, lat |-> 0, lng |-> 0],
      [name |-> <<"Tanjung Piai">>, description |-> <<>>,
       address |-> <<>>, lat |-> 80, lng |-> 9960],
      [name |-> <<"Tanjung Piai">>, description |-> <<>>,
       address |-> <<>>, lat |-> 79, lng |-> 9960],
      [name |-> <<"Kuala Lumpur">>, description |-> <<>>,
       address |-> <<>>, lat |-> 740, lng |-> 11931],
      [name |-> <<"Kuala Lumpur">>, description |-> <<>>,
       address |-> <<>>, lat |-> 740, lng |-> 11930],
      [name |-> <<"Bangkok">>, description |-> <<>>,
       address |-> <<>>, lat |-> 0, lng |-> 10050] }

WithId(r, n) ==
    [id |-> n, name |-> r.name, description |-> r.description,
     address |-> r.address, lat |-> r.lat, lng |-> r.lng]

FilterInputs ==
    UNION { { [i \in 1..n |-> WithId(rs[i], ids[i])] :
                rs \in [1..n -> FilterRecords], ids \in [1..n -> {1, 7}] }
            : n \in 0..MaxSpots }

MaxRuns == 2       \* most runs of the filter on the same file

\* The loop leaving out the last record of the list.
KeptPositionsSkipLast(list, i, b, kept) ==
    SelectSeq([k \in 1..(Len(list) - 1) |-> k],
              LAMBDA k : is_malaysia_location(list[k].lat, list[k].lng, list[k].name,
                                              list[k].description, list[k].address, b))

\* The loop putting each kept record in front of the ones kept before.
KeptPositionsReversed(list, i, b, kept) ==
    LET fwd == SelectSeq([k \in 1..Len(list) |-> k],
                         LAMBDA k : is_malaysia_location(list[k].lat, list[k].lng,
                                                         list[k].name, list[k].description,
                                                         list[k].address, b))
    IN  [n \in 1..Len(fwd) |-> fwd[Len(fwd) + 1 - n]]

\* The positions of the records the loop of lines 57-69 keeps, in order.
RECURSIVE KeptPositions(_, _, _, _)
KeptPositions(list, i, b, kept) ==
    IF i > Len(list) THEN kept
    ELSE LET spot == list[i]
         IN  IF is_malaysia_location(spot.lat, spot.lng, spot.name,
                                     spot.description, spot.address, b)
             THEN KeptPositions(list, i + 1, b, Append(kept, i))
             ELSE KeptPositions(list, i + 1, b, kept)

InitFilter ==
    /\ pc = "flt_start"
    /\ input_exists \in BOOLEAN
    /\ bounds \in BoundsConfigs
    /\ spots_file \in FilterInputs
    /\ input_exists = FALSE => spots_file = <<>>
    /\ malaysia_spots = <<>>
    /\ removed_count = 0
    /\ loaded = <<>>
    /\ enriched_exists = FALSE
    /\ enriched_data = <<>>
    /\ spots = <<>>
    /\ reported = {}
    /\ files_written = {}
    /\ IdleReconcile
    /\ IdleCorrect

\* Lines 43-45: spots-simple.json is absent.
FilterMissing ==
    /\ pc = "flt_start"
    /\ ~input_exists
    /\ reported' = reported \cup {"input file not found"}
    /\ pc' = "flt_no_input"
    /\ UNCHANGED <<enriched_exists, enriched_data, spots, files_written,
                   reconcileVars, correctVars, filterVars>>

\* Lines 47-77: load, filter, renumber the kept records in place, save.  The
\* script can be run again on the file it wrote.
FilterRun ==
    /\ pc \in {"flt_start", "flt_done"}
    /\ input_exists
    /\ Len(loaded) < MaxRuns
    /\ loaded' = Append(loaded, spots_file)
    /\ LET kept == KeptPositions(spots_file, 1, bounds, <<>>)
           new  == [n \in 1..Len(kept) |-> [spots_file[kept[n]] EXCEPT !.id = n]]
       IN  /\ malaysia_spots' = new
           /\ removed_count' = Len(spots_file) - Len(kept)
           /\ spots' = [k \in 1..Len(spots_file) |->
                           IF k \in Range(kept)
                           THEN new[CHOOSE n \in 1..Len(kept) : kept[n] = k]
                           ELSE spots_file[k]]
           /\ spots_file' = new
    /\ files_written' = files_written \cup {"OUTPUT_FILE"}
    /\ pc' = "flt_done"
    /\ UNCHANGED <<enriched_exists, enriched_data, reported, input_exists, bounds,
                   reconcileVars, correctVars>>

NextFilter == FilterMissing \/ FilterRun

SpecFilter == InitFilter /\ [][NextFilter]_vars

(***************************************************************************)
(* update_spots_json.py                                                    *)
(***************************************************************************)
\* The loop of lines 65-107 over the sorted folder names; a folder whose name
\* holds no number is passed over (lines 67-70).
RECURSIVE UpdatedSpots(_, _, _, _, _)
UpdatedSpots(folders, i, existing, spots_data, sofar) ==
    IF i > Len(folders) THEN sofar
    ELSE LET spot_name == folders[i]
             parsed    == ParseSpotIndex(spot_name)
             spot_idx  == parsed[2]
             images    == ImagePaths(spot_name, existing[spot_name])
         IN  IF ~parsed[1]
             THEN UpdatedSpots(folders, i + 1, existing, spots_data, sofar)
             ELSE IF spot_idx < Len(spots_data)
             THEN UpdatedSpots(folders, i + 1, existing, spots_data,
                      Append(sofar, [ id     |-> spot_idx + 1,
                                      name   |-> spots_data[spot_idx + 1].place_name,
                                      lat    |-> spots_data[spot_idx + 1].latitude,
                                      lng    |-> spots_data[spot_idx + 1].longitude,
                                      images |-> images ]))
             ELSE UpdatedSpots(folders, i + 1, existing, spots_data,
                      Append(sofar, [ id     |-> spot_idx + 1,
                                      name   |-> <<"Spot ">> \o IntToStr(spot_idx + 1),
                                      lat    |-> 0,
                                      lng    |-> 0,
                                      images |-> images ]))

InitUpdate ==
    /\ pc = "upd_start"
    /\ flavour = "posix"
    /\ labeled_exists = FALSE
    /\ enriched_exists \in BOOLEAN
    /\ enriched_data \in EnrichedInputs
    /\ enriched_exists = FALSE => enriched_data = <<>>
    /\ disk \in Disks
    /\ image_to_location = EmptyDict
    /\ spot_votes = <<>>
    /\ spot_to_location = <<>>
    /\ location_to_spot = EmptyDict
    /\ spots = <<>>
    /\ reported = {}
    /\ files_written = {}
    /\ IdleCorrect
    /\ IdleFilter

\* update_spots_json (lines 36-119); without the enrichment file spots_data
\* stays empty and the run goes on (lines 52-58).
UpdateSpotsJson ==
    /\ pc = "upd_start"
    /\ LET existing == get_existing_images(disk)
           folders  == SortedStrings(DOMAIN existing)
       IN  spots' = UpdatedSpots(folders, 1, existing, enriched_data, <<>>)
    /\ reported' = IF enriched_exists THEN reported
                   ELSE reported \cup {"enriched file not found, using minimal data"}
    /\ files_written' = files_written \cup {"OUTPUT_FILE"}
    /\ pc' = "upd_done"
    /\ UNCHANGED <<enriched_exists, enriched_data, reconcileVars, correctVars,
                   filterVars>>

NextUpdate == UpdateSpotsJson

SpecUpdate == InitUpdate /\ [][NextUpdate]_vars

(***************************************************************************)
(* Any one of the scripts is run.                                          *)
(***************************************************************************)
Init == InitReconciler \/ InitCorrect \/ InitFilter \/ InitUpdate

Next == NextReconcile \/ NextCorrect \/ NextFilter \/ NextUpdate

Spec == Init /\ [][Next]_vars

(***************************************************************************)
(* Claims about the vote-based reconciler                                  *)
(***************************************************************************)
MappedV2 == pc \in {"mapped", "done"}

\* The locations holding the largest vote count of a folder.
TopVoted(votes) ==
    {votes[i][1] : i \in {k \in 1..Len(votes) : \A j \in 1..Len(votes) : votes[j][2] <= votes[k][2]}}

\* C1: the spotFolder -> locationIndex mapping returned by
\* build_spot_to_location_mapping is injective: no locationIndex is assigned
\* to two different spot folders.
C1_Injective ==
    MappedV2 =>
        \A f, g \in DOMAIN spot_to_location :
            f # g => spot_to_location[f] # spot_to_location[g]

\* C2: when two folders both have location L as their top-voted location, the
\* lexicographically first of them is mapped to L and a later one is left
\* unresolved (a claimed location cannot be claimed again).
C2_FirstClaimWins ==
    MappedV2 =>
        \A f, g \in DOMAIN spot_votes :
            LET first == \A e \in DOMAIN spot_votes :
                            TopVoted(spot_votes[e]) = TopVoted(spot_votes[f]) => ~StrLess(e, f)
            IN  (StrLess(f, g) /\ first
                 /\ Cardinality(TopVoted(spot_votes[f])) = 1
                 /\ TopVoted(spot_votes[g]) = TopVoted(spot_votes[f]))
                => /\ f \in DOMAIN spot_to_location
                   /\ {spot_to_location[f]} = TopVoted(spot_votes[f])
                   /\ g \notin DOMAIN spot_to_location

\* C3: every folder with at least one matching vote is assigned the location
\* with the highest vote count, the lowest such index on a tie, whatever the
\* order of its files; a folder with no matching vote has no entry.
C3_HighestVoteLowestIndex ==
    MappedV2 =>
        /\ DOMAIN spot_to_location = DOMAIN spot_votes
        /\ \A f \in DOMAIN spot_to_location :
              LET top == TopVoted(spot_votes[f])
              IN  /\ spot_to_location[f] \in top
                  /\ \A l \in top : spot_to_location[f] <= l

\* The declared images that produce key k, as <<loc_idx, position>> pairs.
Declaring(k) ==
    { <<i - 1, j>> : i \in 1..Len(enriched_data), j \in 1..3 } \cap
    { ij \in (0..(Len(enriched_data) - 1)) \X (1..3) :
        /\ ij[2] <= Len(enriched_data[ij[1] + 1].images)
        /\ LET p      == enriched_data[ij[1] + 1].images[ij[2]]
               folder == get_spot_folder_from_path(p)
               name   == get_image_filename_from_path(p, flavour)
           IN  /\ p # <<>>
               /\ k = IF folder = None THEN name ELSE folder \o <<"/">> \o name }

DeclaredPaths ==
    UNION {Range(enriched_data[i].images) : i \in 1..Len(enriched_data)} \ {<<>>}

Assembled == pc \in {"done", "v1_done"}

\* The folder a record was built from, read back from its first image path.
FolderOf(spot) == SubSeq(spot.images[1], 2, Len(spot.images[1]) - 3)

\* C6: the records fix_spots_json produces are one per inventory folder, in
\* sorted folder-name order, and their ids are exactly 1, 2, ..., N in that
\* order, whether a folder is resolved or not.
C6_OnePerFolderDenseIds ==
    Assembled =>
        /\ Len(spots) = Cardinality(FoldersWithImages(disk))
        /\ \A i \in 1..Len(spots) :
              /\ spots[i].id = i
              /\ spots[i].images # <<>>
              /\ FolderOf(spots[i]) \in FoldersWithImages(disk)
        /\ \A i, j \in 1..Len(spots) :
              i < j => StrLess(FolderOf(spots[i]), FolderOf(spots[j]))

\* C6 witness: an output holding a resolved record and, after it, the record
\* of an unresolved folder whose index is not its position.
C6_Witness ==
    /\ Assembled
    /\ \E i, j \in 1..Len(spots) :
          /\ i < j
          /\ spots[i].lat # 0
          /\ spots[j].lat = 0
          /\ FolderOf(spots[j]) = Spot10
          /\ spots[j].name = <<"Drone Spot ", "1", "1">>

(***************************************************************************)
(* Claims about the correction run                                         *)
(***************************************************************************)
PassPcs == {"cc_loop", "cc_lookup", "cc_sleep", "cc_decide"}

CorrectionsFor(j) == {k \in 1..Len(corrections) : corrections[k].index = j}

\* What the lookups of the processed location j returned.
ReturnedFor(j) ==
    {events[n][3] : n \in {m \in 1..Len(events) :
                              events[m][1] = "return" /\ events[m][2] = j}}

\* One step of the pass: the decision on the location at idx, or any other step.
DecisionStep ==
    pc \in PassPcs =>
          IF pc = "cc_decide" /\ pc' = "cc_loop"
          THEN LET stored == <<enriched_data[idx + 1].latitude,
                               enriched_data[idx + 1].longitude>>
                   now    == <<enriched_data'[idx + 1].latitude,
                               enriched_data'[idx + 1].longitude>>
                   cand   == new_coords
                   d      == calculate_distance(stored[1], stored[2], cand[1], cand[2])
               IN  /\ {<<"return", idx, cand>>} = {e \in Range(events) : e[2] = idx /\ e[1] = "return"}
                   /\ \A k \in 1..Len(enriched_data) :
                         k # idx + 1 => enriched_data'[k] = enriched_data[k]
                   /\ IF cand # None /\ d > DISTANCE_THRESHOLD_KM * 1000
                      THEN /\ now = cand
                           /\ now # stored
                           /\ corrections' =
                                 Append(corrections,
                                        [ index       |-> idx,
                                          name        |-> enriched_data[idx + 1].place_name,
                                          old_coords  |-> stored,
                                          new_coords  |-> cand,
                                          distance_km |-> d ])
                      ELSE /\ now = stored
                           /\ corrections' = corrections
          ELSE /\ enriched_data' = enriched_data
               /\ corrections' = corrections

\* C4: for every location that was looked up, the stored coordinate is
\* replaced by the candidate and exactly one correction record (index, old
\* coordinates, new coordinates, distance) is appended if and only if the
\* lookup returned a candidate farther than the threshold from the stored
\* coordinate; otherwise the coordinate is unchanged and no record is appended.
C4_CorrectedIffBeyondThreshold == [][DecisionStep]_vars

\* C4 witness: a finished pass in which one lookup led to a correction and
\* another returned a candidate within the threshold.
C4_Witness ==
    /\ pc = "cc_done"
    /\ \E j, k \in 0..(idx - 1) :
          /\ CorrectionsFor(j) # {}
          /\ CorrectionsFor(k) = {}
          /\ ReturnedFor(k) # {} /\ None \notin ReturnedFor(k)

\* C8 as stated: while the pass runs, or after the run was aborted in it, no
\* file has been written by the run.
C8_NoFileBeforePassEnds ==
    pc \in PassPcs \cup {"cc_killed"} => files_written = {}

\* C8 amended: while the pass runs, or after the run was aborted in it, the
\* only file the run has written is the backup copy of the loaded input; the
\* corrected file and the enrichment file are written only after every
\* location has been processed, and only when a correction was made.
C8_OnlyBackupBeforePassEnds ==
    /\ pc \in PassPcs \cup {"cc_killed"} =>
          /\ files_written = {"BACKUP_FILE"}
          /\ \A j \in idx..(Len(enriched_data) - 1) :
                backup_file[j + 1] = enriched_data[j + 1]
    /\ files_written \cap {"CORRECTED_FILE", "ENRICHED_FILE"} # {} =>
          /\ pc = "cc_done"
          /\ idx = Len(enriched_data)
          /\ corrected_count > 0

\* C8 witness: the run is aborted after a correction was made in memory.
C8_Witness ==
    /\ pc = "cc_killed"
    /\ corrected_count > 0
    /\ idx < Len(enriched_data)
    /\ files_written = {"BACKUP_FILE"}

\* C9: lookups are issued one at a time in enrichment order, and after every
\* lookup, whether it returned a candidate or nothing, the delay elapses
\* before the next lookup starts; no two lookups are in flight together.
C9_OneLookupThenDelay ==
    LET Is(n, kind) == events[n][1] = kind
        lookups     == {n \in 1..Len(events) : Is(n, "lookup")}
        returns     == {n \in 1..Len(events) : Is(n, "return")}
    IN  /\ Cardinality(lookups) - Cardinality(returns) \in {0, 1}
        /\ \A n \in lookups :
              \A m \in lookups :
                  m < n =>
                      /\ events[m][2] < events[n][2]
                      /\ \E r, w \in (m + 1)..(n - 1) :
                            /\ r < w
                            /\ Is(r, "return") /\ events[r][2] = events[m][2]
                            /\ Is(w, "delay") /\ events[w][2] = events[m][2]

\* C9 witness: a lookup that returned nothing and one that returned a
\* candidate were each followed by the delay and then by the next lookup.
C9_Witness ==
    \E n, m \in 1..Len(events) :
        /\ n + 2 <= Len(events) /\ m + 2 <= Len(events)
        /\ events[n][1] = "return" /\ events[n][3] = None
        /\ events[n + 1][1] = "delay" /\ events[n + 2][1] = "lookup"
        /\ events[m][1] = "return" /\ events[m][3] # None
        /\ events[m + 1][1] = "delay" /\ events[m + 2][1] = "lookup"

(***************************************************************************)
(* Claims about the geofence filter                                        *)
(***************************************************************************)
\* The three conditions of survival, for a record r under the bounds b.
InsideBounds(r, b) ==
    /\ b.lat_min <= r.lat /\ r.lat <= b.lat_max
    /\ b.lng_min <= r.lng /\ r.lng <= b.lng_max

MentionsExcludedRegion(r) ==
    \E m \in ExcludedMarkers :
        Contains(Lower(r.name \o <<" ">> \o r.description \o <<" ">> \o r.address), m)

MaySurvive(r, b) ==
    /\ ~(r.lat = 0 /\ r.lng = 0)
    /\ ~MentionsExcludedRegion(r)
    /\ InsideBounds(r, b)

\* Record r but for its id.
Content(r) ==
    <<r.name, r.description, r.address, r.lat, r.lng>>

\* C5: a record survives the filter if and only if its coordinate is not
\* (0, 0), its text holds no excluded-region marker in any letter case, and
\* its latitude and longitude lie within the bounds, endpoints included; so
\* every record of the output meets the three conditions and a (0, 0) record
\* is excluded whatever the bounds.
C5_SurvivesIffInsideGeofence ==
    pc = "flt_done" =>
        LET passing == {k \in 1..Len(spots) : MaySurvive(spots[k], bounds)}
        IN  /\ Len(malaysia_spots) = Cardinality(passing)
            /\ \A k \in 1..Len(spots) :
                  (k \in passing) <=>
                      \E n \in 1..Len(malaysia_spots) :
                          /\ Content(malaysia_spots[n]) = Content(spots[k])
                          /\ n = Cardinality({i \in passing : i <= k})
            /\ \A n \in 1..Len(malaysia_spots) : MaySurvive(malaysia_spots[n], bounds)
            /\ \A n \in 1..Len(malaysia_spots) :
                  ~(malaysia_spots[n].lat = 0 /\ malaysia_spots[n].lng = 0)
            /\ spots_file = malaysia_spots

\* C5 witness: under bounds that hold (0, 0) a (0, 0) record was removed
\* while a record on the edge of the bounds was kept.
C5_Witness ==
    /\ pc = "flt_done"
    /\ InsideBounds([lat |-> 0, lng |-> 0], bounds)
    /\ \E k \in 1..Len(spots) : spots[k].lat = 0 /\ spots[k].lng = 0
    /\ \E n \in 1..Len(malaysia_spots) :
          /\ malaysia_spots[n].lat = bounds.lat_max
          /\ malaysia_spots[n].lng = bounds.lng_max

(***************************************************************************)
(* Claims about every script                                               *)
(***************************************************************************)
ReconcilePcs ==
    {"start", "crashed", "mapped", "done",
     "v1_crashed", "v1_built", "v1_primary", "v1_mapped", "v1_done"}

CorrectPcs == PassPcs \cup {"cc_start", "cc_no_input", "cc_summary", "cc_done", "cc_killed"}

FilterPcs == {"flt_start", "flt_no_input", "flt_done"}

C11_LabeledOptional ==
    (~labeled_exists /\ enriched_exists /\ pc \in {"crashed", "mapped", "done"}) =>
        /\ pc # "crashed"
        /\ pc = "done" => "OUTPUT_FILE" \in files_written

(***************************************************************************)
(* Claims about running the geofence filter again                          *)
(***************************************************************************)
\* A run of the filter on the file an earlier run wrote changes nothing.
FilterRerunStep ==
    (pc = "flt_done" /\ pc' = "flt_done") =>
        /\ spots_file' = spots_file
        /\ malaysia_spots' = malaysia_spots
        /\ removed_count' = 0

\* C12: the filter is idempotent: run on its own output it writes the same
\* records in the same order with the same ids, and removes nothing.
C12_Idempotent == [][FilterRerunStep]_vars

\* C12 witness: the filter has run twice, the first run having removed a
\* record and renumbered another, and two records are left.
C12_Witness ==
    /\ pc = "flt_done"
    /\ Len(loaded) = 2
    /\ Len(loaded[1]) > Len(loaded[2])
    /\ \E k \in 1..Len(loaded[2]) : loaded[2][k].id # loaded[1][k].id
    /\ Len(spots_file) >= 1
    /\ spots_file = loaded[2]

\* The strictly increasing maps from 1..k into 1..n.
Embeddings(k, n) ==
    {f \in [1..k -> 1..n] : \A a, b \in 1..k : a < b => f[a] < f[b]}

\* C13: after filtering, the surviving records keep their relative input
\* order and their ids are exactly 1..K, whatever ids the input carried.
C13_OrderKeptIdsDense ==
    pc = "flt_done" =>
        LET input == loaded[Len(loaded)]
            K     == Len(malaysia_spots)
        IN  /\ spots_file = malaysia_spots
            /\ \A n \in 1..K : malaysia_spots[n].id = n
            /\ \E f \in Embeddings(K, Len(input)) :
                  /\ \A n \in 1..K : Content(malaysia_spots[n]) = Content(input[f[n]])
                  /\ \A k \in 1..Len(input) :
                        (\E n \in 1..K : f[n] = k) <=> MaySurvive(input[k], bounds)

\* C13 witness: two different records that both carried id 7 survive a
\* first run.
C13_Witness ==
    /\ pc = "flt_done"
    /\ Len(loaded) = 1
    /\ Len(malaysia_spots) >= 2
    /\ \A k \in 1..Len(loaded[1]) : loaded[1][k].id = 7
    /\ Content(malaysia_spots[1]) # Content(malaysia_spots[2])

(***************************************************************************)
(* Claims about the records of unresolved folders                          *)
(***************************************************************************)
\* A folder without a mapping entry that is a valid enrichment index.
Unresolved(f) ==
    \/ f \notin DOMAIN spot_to_location
    \/ spot_to_location[f] >= Len(enriched_data)

\* Folder names of the form spot_<N>, N a decimal number.
HasEmbeddedIndex(f) ==
    /\ Len(f) >= 2
    /\ f[1] = "spot_"
    /\ \A k \in 2..Len(f) : f[k] \in Digits

EmbeddedIndex(f) == DigitsToInt(Tail(f), 0)

\* C14: every inventory folder without a resolved location is still emitted,
\* as a record with latitude 0 and longitude 0 whose name is
\* "Drone Spot <N+1>", N being the index embedded in the folder's name.
C14_UnresolvedEmitted ==
    Assembled =>
        \A f \in FoldersWithImages(disk) :
            Unresolved(f) =>
                \E i \in 1..Len(spots) :
                    /\ FolderOf(spots[i]) = f
                    /\ spots[i].lat = 0
                    /\ spots[i].lng = 0
                    /\ Len(spots[i].name) >= 2
                    /\ spots[i].name[1] = "Drone Spot "
                    /\ HasEmbeddedIndex(f) =>
                          spots[i].name = <<"Drone Spot ">> \o IntToStr(EmbeddedIndex(f) + 1)

\* C14 witness: spot_10 and a folder without an index are both unresolved
\* and emitted, spot_10 as "Drone Spot 11" under another id, next to a
\* resolved folder.
C14_Witness ==
    /\ Assembled
    /\ Unresolved(Spot10) /\ Unresolved(Extra)
    /\ \E i, j \in 1..Len(spots) :
          /\ FolderOf(spots[i]) = Extra
          /\ FolderOf(spots[j]) = Spot10
          /\ spots[j].name = <<"Drone Spot ", "1", "1">>
          /\ spots[j].id < 11
    /\ \E f \in FoldersWithImages(disk) : ~Unresolved(f)

(***************************************************************************)
(* Claims about the positional fallback of fix_spots_mapping.py            *)
(***************************************************************************)
\* The step of the fallback pass: what it may add to the mapping.
FallbackStep ==
    (pc = "v1_primary" /\ pc' = "v1_mapped") =>
        /\ \A f \in DOMAIN spot_to_location :
              /\ f \in DOMAIN spot_to_location'
              /\ spot_to_location'[f] = spot_to_location[f]
        /\ \A f \in DOMAIN spot_to_location' \ DOMAIN spot_to_location :
              /\ f \in FoldersWithImages(disk)
              /\ HasEmbeddedIndex(f)
              /\ spot_to_location'[f] = EmbeddedIndex(f)
              /\ EmbeddedIndex(f) < Len(enriched_data)
              /\ \A g \in DOMAIN spot_to_location' \ {f} :
                    spot_to_location'[g] # spot_to_location'[f]
              /\ LET declared == Range(enriched_data[EmbeddedIndex(f) + 1].images) \ {<<>>}
                 IN  \/ declared = {}
                     \/ \E p \in declared : get_spot_folder_from_path(p) = f

\* C15: the positional fallback assigns a folder to the location of the
\* folder's embedded number only when the folder was left unresolved by the
\* primary pass, that index is an existing location, no folder has claimed
\* that location, and the location's declared images are absent or refer to
\* this folder; it never replaces an assignment of the primary pass.
C15_FallbackOnlyWhenSafe == [][FallbackStep]_vars

\* The folders the fallback pass assigned: mapped, but not by location_to_spot.
AssignedByFallback ==
    {f \in DOMAIN spot_to_location :
        <<spot_to_location[f], f>> \notin Range(location_to_spot)}

\* C15 witness: the fallback has assigned a folder to a location that
\* declares images, next to a folder the primary pass had assigned.
C15_Witness ==
    /\ pc = "v1_mapped"
    /\ \E f \in AssignedByFallback :
          enriched_data[spot_to_location[f] + 1].images # <<>>
    /\ DOMAIN spot_to_location \ AssignedByFallback # {}

(***************************************************************************)
(* Claims about the path normalizer                                        *)
(***************************************************************************)
\* The first segment of the form spot_<N>, N a decimal number, of a path
\* whose separators are unified and whose recognized prefix is stripped;
\* None when there is no such segment.
FirstNumberedSegment(p) ==
    LET parts == Split(StripPrefix(Replace(p, "\\", "/"), 1), "/")
        hits  == {i \in 1..Len(parts) : HasEmbeddedIndex(parts[i])}
    IN  IF hits = {} THEN None
        ELSE parts[CHOOSE i \in hits : \A j \in hits : i <= j]

\* C16: for every declared path the normalizer returns the first segment
\* that matches spot_<N> with N numeric, and None when no segment matches;
\* the key stored for the path is built from that result.
C16_FirstNumberedSegment ==
    MappedV2 =>
        \A p \in DeclaredPaths :
            LET want == FirstNumberedSegment(p)
                name == get_image_filename_from_path(p, flavour)
            IN  /\ get_spot_folder_from_path(p) = want
                /\ DictHas(image_to_location,
                           IF want = None THEN name ELSE want \o <<"/">> \o name)

(***************************************************************************)
(* Claims about calculate_distance                                         *)
(***************************************************************************)
\* The decision step, seen from the distance it computes between the stored
\* coordinate a and the candidate b.
DistanceStep ==
    (pc = "cc_decide" /\ pc' = "cc_loop" /\ new_coords # None) =>
        LET a == <<enriched_data[idx + 1].latitude, enriched_data[idx + 1].longitude>>
            b == new_coords
        IN  /\ distance' = calculate_distance(b[1], b[2], a[1], a[2])
            /\ calculate_distance(a[1], a[2], a[1], a[2]) = 0
            /\ calculate_distance(b[1], b[2], b[1], b[2]) = 0
            /\ a # b => distance' > 0
            \* a quarter of a meridian is pi / 2 * 6371 km = 10007.5 km
            /\ idx = 0 => calculate_distance(0, a[2], 9000, a[2]) \in 10005000..10010000

\* C17: calculate_distance is the Haversine distance with radius 6371 km:
\* the distance of a coordinate from itself is 0 and the distance from a to
\* b equals the distance from b to a.
C17_DistanceZeroAndSymmetric == [][DistanceStep]_vars

\* C17 witness: the pass has computed the distance between two coordinates
\* that differ in latitude and in longitude, and between two that differ in
\* latitude only.
C17_Witness ==
    /\ pc = "cc_loop"
    /\ idx >= 2
    /\ Len(events) > 0
    /\ events[Len(events)] = <<"delay", idx - 1, None>>
    /\ new_coords # None
    /\ new_coords[1] # backup_file[idx].latitude
    /\ new_coords[2] # backup_file[idx].longitude
    /\ distance > 0
    /\ \E n \in 1..Len(events) :
          /\ events[n][1] = "return"
          /\ events[n][2] < idx - 1
          /\ events[n][3] = <<314, 10160>>
          /\ backup_file[events[n][2] + 1].longitude = 10160

(***************************************************************************)
(* Claims about the lookup                                                 *)
(***************************************************************************)
\* C18: a location whose place name is empty but whose address is not is
\* still looked up: once the pass is past it, a lookup was issued for it.
C18_AddressFallbackLookedUp ==
    pc \in CorrectPcs =>
        \A j \in 0..(idx - 1) :
            (enriched_data[j + 1].place_name = <<>> /\ enriched_data[j + 1].address # <<>>) =>
                \E n \in 1..Len(events) : events[n][1] = "lookup" /\ events[n][2] = j

\* Latitude 0..10 and longitude 99..120, in hundredths of a degree.
InEnvelope(c) ==
    /\ 0 <= c[1] /\ c[1] <= 1000
    /\ 9900 <= c[2] /\ c[2] <= 12000

\* C19: the lookup never returns a coordinate outside the envelope, so every
\* coordinate a correction run has put in place of a stored one lies inside.
C19_ReplacedInsideEnvelope ==
    pc \in CorrectPcs =>
        /\ \A n \in 1..Len(events) :
              (events[n][1] = "return" /\ events[n][3] # None) => InEnvelope(events[n][3])
        /\ new_coords # None => InEnvelope(new_coords)
        /\ \A k \in 1..Len(corrections) : InEnvelope(corrections[k].new_coords)
        /\ \A j \in 1..Len(backup_file) :
              LET now == <<enriched_data[j].latitude, enriched_data[j].longitude>>
                  was == <<backup_file[j].latitude, backup_file[j].longitude>>
              IN  now # was => InEnvelope(now)

\* C19 witness: a finished run has replaced a coordinate by one on the edge
\* of the envelope, which the page carried after one just outside it.
C19_Witness ==
    /\ pc = "cc_done"
    /\ \E k \in 1..Len(corrections) :
          /\ corrections[k].new_coords = <<1000, 12000>>
          /\ enriched_data[corrections[k].index + 1].latitude = 1000
          /\ enriched_data[corrections[k].index + 1].longitude = 12000

(***************************************************************************)
(* Claims about update_spots_json.py                                       *)
(***************************************************************************)
\* C20: the ids of the records update_spots_json writes are exactly
\* 1, 2, ..., N, N being the number of records, for any folder inventory.
C20_UpdateIdsDense ==
    pc = "upd_done" =>
        {spots[i].id : i \in 1..Len(spots)} = 1..Len(spots)


(***************************************************************************)
(* Claims about the final mapping of fix_spots_mapping.py                  *)
(***************************************************************************)
\* C21: in fix_spots_mapping.py the spot_to_location mapping is injective
\* after the primary pass and after the positional fallback: no location
\* index is assigned to two folders, whatever the enrichment records and the
\* folder tree.
C21_V1Injective ==
    pc \in {"v1_primary", "v1_mapped", "v1_done"} =>
        \A f, g \in DOMAIN spot_to_location :
            f # g => spot_to_location[f] # spot_to_location[g]

\* C21 witness: location 0 declares images of spot_0 and spot_1 and is mapped
\* to spot_0 by the primary pass; location 1 declares none, and of the two
\* folders spot_01 and spot_1, whose names both hold the index 1, the
\* fallback has given location 1 to the one listed first and none to the other.
C21_Witness ==
    /\ pc = "v1_mapped"
    /\ Len(enriched_data) = 2
    /\ {Spot0, Spot1, Spot01} \subseteq FoldersWithImages(disk)
    /\ {Spot0, Spot1} \subseteq LocationSpots(enriched_data[1])
    /\ LocationSpots(enriched_data[2]) = {}
    /\ DOMAIN spot_to_location = {Spot0, Spot01}
    /\ spot_to_location[Spot0] = 0
    /\ spot_to_location[Spot01] = 1


(***************************************************************************)
(* Claims about the summary counters of the correction pass                *)
(***************************************************************************)
\* The positions in events of the lookups that returned a candidate, nothing,
\* or either.
ReturnsOf(kind) ==
    {n \in 1..Len(events) :
        /\ events[n][1] = "return"
        /\ \/ kind = "any"
           \/ kind = "nothing" /\ events[n][3] = None
           \/ kind = "candidate" /\ events[n][3] # None}

Unnamed == {j \in 1..Len(enriched_data) : enriched_data[j].place_name = <<>>}

\* C22: at the end of every correction pass corrected + unchanged + errors
\* equals the number of enrichment records and the number of
\* CorrectionRecords equals the corrected counter; a record with no place
\* name counts as unchanged and is never looked up, a lookup that returned
\* nothing counts as an error.
C22_CountersPartition ==
    pc \in {"cc_summary", "cc_done"} =>
        /\ corrected_count + unchanged_count + error_count = Len(enriched_data)
        /\ Len(corrections) = corrected_count
        /\ error_count = Cardinality(ReturnsOf("nothing"))
        /\ corrected_count + unchanged_count =
               Cardinality(Unnamed) + Cardinality(ReturnsOf("candidate"))
        /\ unchanged_count >= Cardinality(Unnamed)
        /\ \A j \in Unnamed : \A n \in 1..Len(events) : events[n][2] # j - 1

\* C22 witness: a finished pass over three records that corrected one, failed
\* to look up one and skipped one that has no place name.
C22_Witness ==
    /\ pc = "cc_done"
    /\ Len(enriched_data) = 3
    /\ corrected_count = 1
    /\ error_count = 1
    /\ unchanged_count = 1
    /\ Cardinality(Unnamed) = 1


(***************************************************************************)
(* Claims about the votes of the vote-based reconciler                     *)
(***************************************************************************)
\* The keys of the evidence index that are bare file names: those of the
\* declared paths holding no spot folder segment.
BareKeys ==
    {ImageKey(p, flavour) : p \in {q \in DeclaredPaths : get_spot_folder_from_path(q) = None}}

\* The image files of folder f that location loc declares under that folder.
DeclaredUnder(f, loc) ==
    {file \in ImageFilesOf(disk, f) :
        \E p \in Range(enriched_data[loc + 1].images) \ {<<>>} :
            /\ get_spot_folder_from_path(p) = f
            /\ get_image_filename_from_path(p, flavour) = file}

\* C23: an entry of the evidence index keyed by a bare file name never
\* contributes a vote: no folder and file on disk form its key, and each vote
\* count of a folder for a location is at most the number of the folder's
\* files that the location declares with a path naming that folder.
C23_BareKeysNeverVote ==
    MappedV2 =>
        /\ BareKeys \subseteq DictKeys(image_to_location)
        /\ \A k \in BareKeys :
              \A f \in FoldersWithImages(disk) :
                  \A file \in ImageFilesOf(disk, f) : f \o <<"/">> \o file # k
        /\ \A f \in DOMAIN spot_votes :
              \A e \in 1..Len(spot_votes[f]) :
                  spot_votes[f][e][2] \in
                      1..Cardinality(DeclaredUnder(f, spot_votes[f][e][1]))

\* C23 witness: location 0 declares a.jpg by its bare name and under no
\* folder, spot_1 on disk holds a.jpg, and the only vote of spot_1 comes from
\* location 1, which declares spot_1/a.jpg.
C23_Witness ==
    /\ pc = "mapped"
    /\ Len(enriched_data) = 2
    /\ FileA \in BareKeys
    /\ DictGet(image_to_location, FileA) = 0
    /\ \A p \in Range(enriched_data[1].images) : get_spot_folder_from_path(p) # Spot1
    /\ FileA \in ImageFilesOf(disk, Spot1)
    /\ Spot1 \in DOMAIN spot_votes
    /\ spot_votes[Spot1] = << <<1, 1>> >>

====
